---- MODULE Spec2Model ----
(***************************************************************************)
(* Model of the LDAP access layer of src/ldap.mjs: the promise wrappers    *)
(* queryLdap, setLdapAttribute, addLdapAttribute, removeLdapAttribute,     *)
(* addLdapEntry, removeLdapEntry and modifyLdapDn, each of which issues    *)
(* one wire call on the ldapjs client and settles its promise from the     *)
(* callback (or, for a search, from the events of the result emitter).     *)
(* The directory server is the environment: it answers each wire call      *)
(* from the current directory content.                                     *)
(* openLdap and closeLdap call client.bind and client.unbind and return    *)
(* without waiting for the callback. Spec is the sequential use of a bound *)
(* session, SpecRace two concurrent addLdapEntry calls, SpecSession the    *)
(* life of the session from openLdap to closeLdap.                         *)
(***************************************************************************)
EXTENDS Integers, Sequences, FiniteSets, TLC

\* Number of leaf DNs below the search root.
NumDN == 2

\* A DN is the sequence of its RDNs below the naming context; the naming
\* context itself (the search root) is the empty sequence and always exists.
Suffix == << >>
RDNs == 1..NumDN
DNs == {<<i>> : i \in RDNs}
SearchBases == DNs \cup {Suffix}

\* The attributes the callers write, and the values each of them takes.
AttrNames == {"telephoneNumber", "mail"}
ValuesOf(a) ==
    IF a = "telephoneNumber" THEN {"0120-444-444", "0120-555-555"}
    ELSE {"test_user@test.domain"}
Values == UNION {ValuesOf(a) : a \in AttrNames}

\* The attributes of an entry: every attribute name to its set of values;
\* an attribute without values is absent from the entry.
Entries == {e \in [AttrNames -> SUBSET Values] : \A a \in AttrNames : e[a] \subseteq ValuesOf(a)}
EmptyAttrs == [a \in AttrNames |-> {}]
NoEntry == [exists |-> FALSE, attrs |-> EmptyAttrs]

\* Search filters: an equality match (attr=value), or the presence filter
\* (objectClass=*) that matches every entry.
AnyFilter == [attr |-> "objectClass", value |-> "*"]
Filters == {AnyFilter} \cup {[attr |-> a, value |-> v] : a \in AttrNames, v \in Values}

\* The client argument: a session handle, or null/undefined.
Client == "client"
Null == "null"
Clients == {Client, Null}

Callers == {1, 2}
\* Callers that issue operations one after another on the session.
SeqCallers == {1}

VARIABLES
    directory,  \* server: DN -> [exists, attrs]
    pc,         \* per caller: "idle", "sent", "replied", "stream", "settled"
    call,       \* per caller: the invocation in progress
    req,        \* per caller: the wire request of the invocation
    resp,       \* per caller: the server's answer to it (an error name or "none")
    wireLog,    \* per caller: the wire calls issued by the invocation, in order
    pending,    \* per caller: entries of a search the server has still to deliver
    delivered,  \* per caller: entries of a search delivered so far, in order
    results,    \* per caller: the results array of queryLdap
    outcome,    \* per caller: how the promise settled
    pre,        \* per caller: the directory when the invocation started
    created,    \* the last addLdapEntry that resolved, until the next mutating call
    session     \* the connection: its bind, its unbind, what openLdap and closeLdap returned

vars == <<directory, pc, call, req, resp, wireLog, pending, delivered, results, outcome, pre,
          created, session>>

NoCall == [fn |-> "none", client |-> Null, dn |-> Suffix, name |-> "none",
           values |-> {}, entry |-> EmptyAttrs, newRdn |-> 1, newParent |-> Suffix,
           filter |-> AnyFilter]
NoChange == [operation |-> "none", type |-> "none", values |-> {}]
NoReq == [kind |-> "none", dn |-> Suffix, change |-> NoChange, entry |-> EmptyAttrs,
          newDn |-> Suffix, filter |-> AnyFilter]
Unsettled == [state |-> "pending", error |-> "none", value |-> << >>]
NoneCreated == [valid |-> FALSE, dn |-> Suffix, entry |-> EmptyAttrs]

Mutations == {"add", "modify", "del", "modifyDN"}

\* The session before openLdap, and after an openLdap whose bind the server
\* accepted and acknowledged.
\*   bind:   "none", "sent", "accepted" / "rejected" (by the server), then
\*           "bound" / "failed" once the callback of client.bind has run
\*   open:   "none", or how the promise of openLdap settled
\*   unbind: "none", "sent", "ok" / "error", then "done" / "failed" once the
\*           callback of client.unbind has run
\*   close:  "none", or how the promise of closeLdap settled
\*   uncaught: the error thrown out of a callback, which ends the process
Passwords == {"secret", "wrong"}
NoSession == [password |-> "secret", bind |-> "none", open |-> "none",
              unbind |-> "none", close |-> "none", uncaught |-> "none"]
BoundSession == [NoSession EXCEPT !.bind = "bound", !.open = "resolved"]

----------------------------------------------------------------------------
(* The directory server's answer to each wire call.                        *)

Exists(dir, dn) == dn = Suffix \/ dir[dn].exists

Matches(filter, attrs) ==
    \/ filter = AnyFilter
    \/ filter.attr \in AttrNames /\ filter.value \in attrs[filter.attr]

\* entry.attributes of a delivered search entry: the attributes that have values.
AttributesOf(attrs) ==
    {[type |-> a, values |-> attrs[a]] : a \in {b \in AttrNames : attrs[b] # {}}}

\* The entries a subtree search from base with this filter returns.
SearchMatches(dir, base, filter) ==
    {[dn |-> d, attributes |-> AttributesOf(dir[d].attrs)] :
        d \in {x \in DNs : /\ dir[x].exists
                           /\ (base = Suffix \/ base = x)
                           /\ Matches(filter, dir[x].attrs)}}

SearchStatus(dir, base) == IF Exists(dir, base) THEN "none" ELSE "NoSuchObject"

AddStatus(dir, dn) == IF dir[dn].exists THEN "EntryAlreadyExists" ELSE "none"

DelStatus(dir, dn) == IF dir[dn].exists THEN "none" ELSE "NoSuchObject"

ModifyStatus(dir, dn, change) ==
    IF ~dir[dn].exists THEN "NoSuchObject"
    ELSE LET cur == dir[dn].attrs[change.type] IN
         CASE change.operation = "replace" -> "none"
           [] change.operation = "add" ->
                IF change.values \cap cur # {} THEN "AttributeOrValueExists" ELSE "none"
           [] change.operation = "delete" ->
                IF cur = {} \/ ~(change.values \subseteq cur) THEN "NoSuchAttribute" ELSE "none"

ModifiedValues(cur, change) ==
    CASE change.operation = "replace" -> change.values
      [] change.operation = "add" -> cur \cup change.values
      [] change.operation = "delete" -> IF change.values = {} THEN {} ELSE cur \ change.values

ModifyDNStatus(dir, dn, newDn) ==
    IF ~dir[dn].exists THEN "NoSuchObject"
    ELSE IF dir[newDn].exists THEN "EntryAlreadyExists"
    ELSE "none"

\* The status the server returns for a mutation request.
MutationStatus(dir, r) ==
    CASE r.kind = "add" -> AddStatus(dir, r.dn)
      [] r.kind = "del" -> DelStatus(dir, r.dn)
      [] r.kind = "modify" -> ModifyStatus(dir, r.dn, r.change)
      [] r.kind = "modifyDN" -> ModifyDNStatus(dir, r.dn, r.newDn)

\* The directory after a mutation request that the server accepted.
Applied(dir, r) ==
    CASE r.kind = "add" -> [dir EXCEPT ![r.dn] = [exists |-> TRUE, attrs |-> r.entry]]
      [] r.kind = "del" -> [dir EXCEPT ![r.dn] = NoEntry]
      [] r.kind = "modify" ->
            [dir EXCEPT ![r.dn].attrs[r.change.type] =
                            ModifiedValues(dir[r.dn].attrs[r.change.type], r.change)]
      [] r.kind = "modifyDN" ->
            [dir EXCEPT ![r.newDn] = dir[r.dn], ![r.dn] = NoEntry]

----------------------------------------------------------------------------
(* The client side: src/ldap.mjs.                                          *)

\* A getChange that ignores the operation it is given.
GetChangeAlwaysReplace(operation, attributeName, attributeValues) ==
    [operation |-> "replace", type |-> attributeName, values |-> attributeValues]

\* getChange: the ldap.Change payload of an attribute operation.
GetChange(operation, attributeName, attributeValues) ==
    [operation |-> operation, type |-> attributeName, values |-> attributeValues]

\* The DN that modifyLdapDn asks the server to rename the entry to.
NewDn(newRdn, newParent) == <<newRdn>> \o newParent

\* A search that leaves the filter out of opts: the server matches every entry.
SearchRequestNoFilter(searchBase, searchFilter) ==
    [NoReq EXCEPT !.kind = "search", !.dn = searchBase, !.filter = AnyFilter]

SearchRequest(searchBase, searchFilter) ==
    [NoReq EXCEPT !.kind = "search", !.dn = searchBase, !.filter = searchFilter]

\* A change sent with client.add in place of client.modify.
ModifyRequestAsAdd(dn, change) ==
    [NoReq EXCEPT !.kind = "add", !.dn = dn,
                  !.entry = [EmptyAttrs EXCEPT ![change.type] = change.values]]

ModifyRequest(dn, change) ==
    [NoReq EXCEPT !.kind = "modify", !.dn = dn, !.change = change]

AddRequest(dn, entry) ==
    [NoReq EXCEPT !.kind = "add", !.dn = dn, !.entry = entry]

DelRequest(dn) ==
    [NoReq EXCEPT !.kind = "del", !.dn = dn]

\* A rename with the old and the new DN exchanged.
ModifyDNRequestSwapped(oldDn, newRdn, newParent) ==
    [NoReq EXCEPT !.kind = "modifyDN", !.dn = NewDn(newRdn, newParent), !.newDn = oldDn]

ModifyDNRequest(oldDn, newRdn, newParent) ==
    [NoReq EXCEPT !.kind = "modifyDN", !.dn = oldDn, !.newDn = NewDn(newRdn, newParent)]

\* results.unshift(entry.attributes)
UnshiftResult(res, entry) == <<entry.attributes>> \o res

\* results.push(entry.attributes)
PushResult(res, entry) == Append(res, entry.attributes)

\* An invocation starts: the caller is not inside another awaited call.
Begin(c, invocation) ==
    /\ pc[c] = "idle"
    /\ call' = [call EXCEPT ![c] = invocation]
    /\ pre' = [pre EXCEPT ![c] = directory]
    /\ created' = IF invocation.fn = "queryLdap" THEN created ELSE NoneCreated
    /\ UNCHANGED <<directory, resp, pending, delivered, results, session>>

\* The invocation throws before any wire call: the promise rejects.
Throw(c, error) ==
    /\ pc' = [pc EXCEPT ![c] = "settled"]
    /\ outcome' = [outcome EXCEPT ![c] = [Unsettled EXCEPT !.state = "rejected", !.error = error]]
    /\ UNCHANGED <<req, wireLog>>

\* The invocation issues a wire call on the client and awaits its callback.
Send(c, r) ==
    /\ pc' = [pc EXCEPT ![c] = "sent"]
    /\ req' = [req EXCEPT ![c] = r]
    /\ wireLog' = [wireLog EXCEPT ![c] = Append(@, [kind |-> r.kind, dn |-> r.dn])]
    /\ UNCHANGED outcome

\* resolve(value) / reject(error) of the invocation's promise.
Resolve(c, value) ==
    /\ pc' = [pc EXCEPT ![c] = "settled"]
    /\ outcome' = [outcome EXCEPT ![c] = [Unsettled EXCEPT !.state = "resolved", !.value = value]]

\* A reject that replaces the error it is given by a new one.
RejectGeneric(c, error) ==
    /\ pc' = [pc EXCEPT ![c] = "settled"]
    /\ outcome' = [outcome EXCEPT ![c] = [Unsettled EXCEPT !.state = "rejected", !.error = "Error"]]

Reject(c, error) ==
    /\ pc' = [pc EXCEPT ![c] = "settled"]
    /\ outcome' = [outcome EXCEPT ![c] = [Unsettled EXCEPT !.state = "rejected", !.error = error]]

queryLdap(c, client, searchBase, searchFilter) ==
    /\ Begin(c, [NoCall EXCEPT !.fn = "queryLdap", !.client = client,
                               !.dn = searchBase, !.filter = searchFilter])
    /\ IF client = Null
         THEN Throw(c, "client is not defined")
         ELSE Send(c, SearchRequest(searchBase, searchFilter))

changeLdapAttribute(c, client, dn, change) ==
    IF client = Null
      THEN Throw(c, "client is not defined")
      ELSE Send(c, ModifyRequest(dn, change))

setLdapAttribute(c, client, dn, attributeName, attributeValues) ==
    /\ Begin(c, [NoCall EXCEPT !.fn = "setLdapAttribute", !.client = client, !.dn = dn,
                               !.name = attributeName, !.values = attributeValues])
    /\ changeLdapAttribute(c, client, dn, GetChange("replace", attributeName, attributeValues))

addLdapAttribute(c, client, dn, attributeName, attributeValues) ==
    /\ Begin(c, [NoCall EXCEPT !.fn = "addLdapAttribute", !.client = client, !.dn = dn,
                               !.name = attributeName, !.values = attributeValues])
    /\ changeLdapAttribute(c, client, dn, GetChange("add", attributeName, attributeValues))

removeLdapAttribute(c, client, dn, attributeName) ==
    /\ Begin(c, [NoCall EXCEPT !.fn = "removeLdapAttribute", !.client = client, !.dn = dn,
                               !.name = attributeName])
    /\ changeLdapAttribute(c, client, dn, GetChange("delete", attributeName, {}))

\* addLdapEntry, removeLdapEntry and modifyLdapDn do not test the client:
\* with a null client the property access throws inside the promise
\* executor, which rejects the promise with the TypeError.
addLdapEntry(c, client, dn, entry) ==
    /\ Begin(c, [NoCall EXCEPT !.fn = "addLdapEntry", !.client = client, !.dn = dn,
                               !.entry = entry])
    /\ IF client = Null
         THEN Throw(c, "TypeError")
         ELSE Send(c, AddRequest(dn, entry))

removeLdapEntry(c, client, dn) ==
    /\ Begin(c, [NoCall EXCEPT !.fn = "removeLdapEntry", !.client = client, !.dn = dn])
    /\ IF client = Null
         THEN Throw(c, "TypeError")
         ELSE Send(c, DelRequest(dn))

modifyLdapDn(c, client, oldDn, newRdn, newParent) ==
    /\ Begin(c, [NoCall EXCEPT !.fn = "modifyLdapDn", !.client = client, !.dn = oldDn,
                               !.newRdn = newRdn, !.newParent = newParent])
    /\ IF client = Null
         THEN Throw(c, "TypeError")
         ELSE Send(c, ModifyDNRequest(oldDn, newRdn, newParent))

\* The server handles a mutation request: it applies it, or refuses it.
ServerMutation(c) ==
    /\ pc[c] = "sent"
    /\ req[c].kind \in Mutations
    /\ LET status == MutationStatus(directory, req[c]) IN
        /\ resp' = [resp EXCEPT ![c] = status]
        /\ directory' = IF status = "none" THEN Applied(directory, req[c]) ELSE directory
        /\ created' = NoneCreated
    /\ pc' = [pc EXCEPT ![c] = "replied"]
    /\ UNCHANGED <<call, req, wireLog, pending, delivered, results, outcome, pre, session>>

\* A callback that resolves whatever err is.
MutationCallbackSwallow(c) ==
    /\ pc[c] = "replied"
    /\ req[c].kind \in Mutations
    /\ Resolve(c, << >>)
    /\ created' = IF call[c].fn = "addLdapEntry"
                    THEN [valid |-> TRUE, dn |-> call[c].dn, entry |-> call[c].entry]
                    ELSE created
    /\ UNCHANGED <<directory, call, req, resp, wireLog, pending, delivered, results, pre, session>>

\* A callback that issues the wire call again when err is set.
MutationCallbackRetry(c) ==
    /\ pc[c] = "replied"
    /\ req[c].kind \in Mutations
    /\ IF resp[c] # "none"
         THEN Send(c, req[c]) /\ resp' = [resp EXCEPT ![c] = "none"] /\ created' = created
         ELSE /\ Resolve(c, << >>)
              /\ created' = IF call[c].fn = "addLdapEntry"
                              THEN [valid |-> TRUE, dn |-> call[c].dn, entry |-> call[c].entry]
                              ELSE created
              /\ UNCHANGED <<req, resp, wireLog>>
    /\ UNCHANGED <<directory, call, pending, delivered, results, pre, session>>

\* The callback of client.modify / add / del / modifyDN.
MutationCallback(c) ==
    /\ pc[c] = "replied"
    /\ req[c].kind \in Mutations
    /\ IF resp[c] # "none" THEN Reject(c, resp[c]) ELSE Resolve(c, << >>)
    /\ created' = IF resp[c] = "none" /\ call[c].fn = "addLdapEntry"
                    THEN [valid |-> TRUE, dn |-> call[c].dn, entry |-> call[c].entry]
                    ELSE created
    /\ UNCHANGED <<directory, call, req, resp, wireLog, pending, delivered, results, pre, session>>

\* The server handles a search request: it fixes the entries to send, or the
\* error to report.
ServerSearch(c) ==
    /\ pc[c] = "sent"
    /\ req[c].kind = "search"
    /\ resp' = [resp EXCEPT ![c] = SearchStatus(directory, req[c].dn)]
    /\ pending' = [pending EXCEPT ![c] =
                      IF Exists(directory, req[c].dn)
                        THEN SearchMatches(directory, req[c].dn, req[c].filter)
                        ELSE {}]
    /\ pc' = [pc EXCEPT ![c] = "replied"]
    /\ UNCHANGED <<directory, call, req, wireLog, delivered, results, outcome, pre, created, session>>

\* The callback of client.search with a result emitter: results = [] and
\* the three handlers are registered.
SearchCallback(c) ==
    /\ pc[c] = "replied"
    /\ req[c].kind = "search"
    /\ pc' = [pc EXCEPT ![c] = "stream"]
    /\ results' = [results EXCEPT ![c] = << >>]
    /\ UNCHANGED <<directory, call, req, resp, wireLog, pending, delivered, outcome, pre, created, session>>

\* The callback of client.search with err: the error came back before the
\* emitter was handed over.
SearchCallbackErr(c) ==
    /\ pc[c] = "replied"
    /\ req[c].kind = "search"
    /\ resp[c] # "none"
    /\ Reject(c, resp[c])
    /\ UNCHANGED <<directory, call, req, resp, wireLog, pending, delivered, results, pre, created, session>>

\* res.on('searchEntry'): the server delivers one more entry.
OnSearchEntry(c, entry) ==
    /\ pc[c] = "stream"
    /\ entry \in pending[c]
    /\ pending' = [pending EXCEPT ![c] = @ \ {entry}]
    /\ delivered' = [delivered EXCEPT ![c] = Append(@, entry)]
    /\ results' = [results EXCEPT ![c] = PushResult(@, entry)]
    /\ UNCHANGED <<directory, pc, call, req, resp, wireLog, outcome, pre, created, session>>

\* res.on('end'): the server has sent every entry and a success result.
OnEnd(c) ==
    /\ pc[c] = "stream"
    /\ resp[c] = "none"
    /\ pending[c] = {}
    /\ Resolve(c, results[c])
    /\ UNCHANGED <<directory, call, req, resp, wireLog, pending, delivered, results, pre, created, session>>

\* res.on('error'): the server's result is an error.
OnError(c) ==
    /\ pc[c] = "stream"
    /\ resp[c] # "none"
    /\ Reject(c, resp[c])
    /\ UNCHANGED <<directory, call, req, resp, wireLog, pending, delivered, results, pre, created, session>>

\* The awaiting caller takes the settled result and goes on.
Return(c) ==
    /\ pc[c] = "settled"
    /\ pc' = [pc EXCEPT ![c] = "idle"]
    /\ call' = [call EXCEPT ![c] = NoCall]
    /\ req' = [req EXCEPT ![c] = NoReq]
    /\ resp' = [resp EXCEPT ![c] = "none"]
    /\ wireLog' = [wireLog EXCEPT ![c] = << >>]
    /\ pending' = [pending EXCEPT ![c] = {}]
    /\ delivered' = [delivered EXCEPT ![c] = << >>]
    /\ results' = [results EXCEPT ![c] = << >>]
    /\ outcome' = [outcome EXCEPT ![c] = Unsettled]
    /\ pre' = [pre EXCEPT ![c] = directory]
    /\ UNCHANGED <<directory, created, session>>

Init ==
    /\ directory = [d \in DNs |-> NoEntry]
    /\ pc = [c \in Callers |-> "idle"]
    /\ call = [c \in Callers |-> NoCall]
    /\ req = [c \in Callers |-> NoReq]
    /\ resp = [c \in Callers |-> "none"]
    /\ wireLog = [c \in Callers |-> << >>]
    /\ pending = [c \in Callers |-> {}]
    /\ delivered = [c \in Callers |-> << >>]
    /\ results = [c \in Callers |-> << >>]
    /\ outcome = [c \in Callers |-> Unsettled]
    /\ pre = [c \in Callers |-> directory]
    /\ created = NoneCreated
    /\ session = BoundSession

Next ==
    \E c \in SeqCallers :
        \/ \E client \in Clients, searchBase \in SearchBases, searchFilter \in Filters :
              queryLdap(c, client, searchBase, searchFilter)
        \/ \E client \in Clients, dn \in DNs, a \in AttrNames : \E vs \in SUBSET ValuesOf(a) :
              setLdapAttribute(c, client, dn, a, vs)
        \/ \E client \in Clients, dn \in DNs, a \in AttrNames : \E vs \in (SUBSET ValuesOf(a)) \ {{}} :
              addLdapAttribute(c, client, dn, a, vs)
        \/ \E client \in Clients, dn \in DNs, a \in AttrNames :
              removeLdapAttribute(c, client, dn, a)
        \/ \E client \in Clients, dn \in DNs, entry \in Entries \ {EmptyAttrs} :
              addLdapEntry(c, client, dn, entry)
        \/ \E client \in Clients, dn \in DNs :
              removeLdapEntry(c, client, dn)
        \/ \E client \in Clients, oldDn \in DNs, newRdn \in RDNs :
              modifyLdapDn(c, client, oldDn, newRdn, Suffix)
        \/ ServerMutation(c)
        \/ MutationCallback(c)
        \/ ServerSearch(c)
        \/ SearchCallback(c)
        \/ SearchCallbackErr(c)
        \/ \E entry \in pending[c] : OnSearchEntry(c, entry)
        \/ OnEnd(c)
        \/ OnError(c)
        \/ Return(c)

Spec == Init /\ [][Next]_vars

----------------------------------------------------------------------------
(* Two addLdapEntry calls for one DN, issued concurrently on the session:  *)
(* the second is called before the promise of the first has settled.       *)

Directories == [DNs -> {NoEntry} \cup {[exists |-> TRUE, attrs |-> e] : e \in Entries}]

InitRace ==
    /\ directory \in Directories
    /\ pc = [c \in Callers |-> "idle"]
    /\ call = [c \in Callers |-> NoCall]
    /\ req = [c \in Callers |-> NoReq]
    /\ resp = [c \in Callers |-> "none"]
    /\ wireLog = [c \in Callers |-> << >>]
    /\ pending = [c \in Callers |-> {}]
    /\ delivered = [c \in Callers |-> << >>]
    /\ results = [c \in Callers |-> << >>]
    /\ outcome = [c \in Callers |-> Unsettled]
    /\ pre = [c \in Callers |-> directory]
    /\ created = NoneCreated
    /\ session = BoundSession

RaceAdd(c, dn, entry) ==
    /\ call[c].fn = "none"
    /\ \A o \in Callers \ {c} :
          IF call[o].fn = "none"
            THEN ~directory[dn].exists
            ELSE dn = call[o].dn /\ pc[o] # "settled"
    /\ addLdapEntry(c, Client, dn, entry)

NextRace ==
    \E c \in Callers :
        \/ \E dn \in DNs, entry \in Entries \ {EmptyAttrs} : RaceAdd(c, dn, entry)
        \/ ServerMutation(c)
        \/ MutationCallback(c)

SpecRace == InitRace /\ [][NextRace]_vars

----------------------------------------------------------------------------
(* The life of the session: openLdap, the operations on the client it      *)
(* returned, closeLdap.                                                    *)

\* openLdap: creates the client, calls client.bind and returns the client
\* without waiting for the callback of the bind.
openLdap(password) ==
    /\ session.open = "none"
    /\ session' = [session EXCEPT !.password = password, !.bind = "sent", !.open = "resolved"]
    /\ UNCHANGED <<directory, pc, call, req, resp, wireLog, pending, delivered, results,
                   outcome, pre, created>>

\* The server answers the bind request.
ServerBind ==
    /\ session.bind = "sent"
    /\ session' = [session EXCEPT !.bind = IF session.password = "secret"
                                             THEN "accepted" ELSE "rejected"]
    /\ UNCHANGED <<directory, pc, call, req, resp, wireLog, pending, delivered, results,
                   outcome, pre, created>>

\* The callback of client.bind: throws when err is set. The throw is inside
\* the callback, not inside openLdap: nothing catches it.
BindCallback ==
    /\ session.bind \in {"accepted", "rejected"}
    /\ session' = IF session.bind = "rejected"
                    THEN [session EXCEPT !.bind = "failed", !.uncaught = "InvalidCredentials"]
                    ELSE [session EXCEPT !.bind = "bound"]
    /\ UNCHANGED <<directory, pc, call, req, resp, wireLog, pending, delivered, results,
                   outcome, pre, created>>

\* closeLdap: calls client.unbind and returns without waiting for its callback.
closeLdap ==
    /\ session.open = "resolved"
    /\ session.close = "none"
    /\ \A c \in Callers : pc[c] = "idle"
    /\ session' = [session EXCEPT !.unbind = "sent", !.close = "resolved"]
    /\ UNCHANGED <<directory, pc, call, req, resp, wireLog, pending, delivered, results,
                   outcome, pre, created>>

\* The unbind goes through, or the connection fails under it. Requests of
\* one connection are handled in the order they were sent.
ServerUnbind ==
    /\ session.unbind = "sent"
    /\ session.bind # "sent"
    /\ \E status \in {"ok", "error"} : session' = [session EXCEPT !.unbind = status]
    /\ UNCHANGED <<directory, pc, call, req, resp, wireLog, pending, delivered, results,
                   outcome, pre, created>>

\* The callback of client.unbind: throws when err is set.
UnbindCallback ==
    /\ session.unbind \in {"ok", "error"}
    /\ session' = IF session.unbind = "error"
                    THEN [session EXCEPT !.unbind = "failed", !.uncaught = "ConnectionError"]
                    ELSE [session EXCEPT !.unbind = "done"]
    /\ UNCHANGED <<directory, pc, call, req, resp, wireLog, pending, delivered, results,
                   outcome, pre, created>>

\* The process runs: no callback has thrown.
Alive == session.uncaught = "none"

\* The caller holds the client openLdap returned and has not closed it.
HoldsClient == session.open = "resolved" /\ session.close = "none"

\* The server handles the requests that follow an accepted bind.
Serving == session.bind \in {"accepted", "bound"}

InitSession ==
    /\ directory = [d \in DNs |-> NoEntry]
    /\ pc = [c \in Callers |-> "idle"]
    /\ call = [c \in Callers |-> NoCall]
    /\ req = [c \in Callers |-> NoReq]
    /\ resp = [c \in Callers |-> "none"]
    /\ wireLog = [c \in Callers |-> << >>]
    /\ pending = [c \in Callers |-> {}]
    /\ delivered = [c \in Callers |-> << >>]
    /\ results = [c \in Callers |-> << >>]
    /\ outcome = [c \in Callers |-> Unsettled]
    /\ pre = [c \in Callers |-> directory]
    /\ created = NoneCreated
    /\ session = NoSession

NextSession ==
    \/ Alive /\ \E password \in Passwords : openLdap(password)
    \/ Alive /\ ServerBind
    \/ Alive /\ BindCallback
    \/ Alive /\ closeLdap
    \/ Alive /\ ServerUnbind
    \/ Alive /\ UnbindCallback
    \/ \E c \in SeqCallers :
          \/ Alive /\ HoldsClient /\ \E dn \in DNs : removeLdapEntry(c, Client, dn)
          \/ Alive /\ HoldsClient /\ \E searchBase \in SearchBases :
                                        queryLdap(c, Client, searchBase, AnyFilter)
          \/ Alive /\ HoldsClient /\ \E dn \in DNs, entry \in Entries \ {EmptyAttrs} :
                                        addLdapEntry(c, Client, dn, entry)
          \/ Alive /\ Serving /\ ServerMutation(c)
          \/ Alive /\ MutationCallback(c)
          \/ Alive /\ Serving /\ ServerSearch(c)
          \/ Alive /\ SearchCallback(c)
          \/ Alive /\ SearchCallbackErr(c)
          \/ Alive /\ \E entry \in pending[c] : OnSearchEntry(c, entry)
          \/ Alive /\ OnEnd(c)
          \/ Alive /\ OnError(c)
          \/ Alive /\ Return(c)

SpecSession == InitSession /\ [][NextSession]_vars

----------------------------------------------------------------------------
(* Properties.                                                             *)

\* existsAtDn(dn): a search at exactly dn for (objectClass=*) returns an
\* entry; false, not an error, when there is none.
existsAtDn(dir, dn) ==
    /\ SearchStatus(dir, dn) = "none"
    /\ \E e \in SearchMatches(dir, dn, AnyFilter) : e.dn = dn

Issued(c, kind) == \E i \in DOMAIN wireLog[c] : wireLog[c][i].kind = kind

Settled(c) == pc[c] = "settled"
Resolved(c) == Settled(c) /\ outcome[c].state = "resolved"
Rejected(c) == Settled(c) /\ outcome[c].state = "rejected"

Running(c, fn) == call[c].fn = fn /\ call[c].client = Client

AttributeFns == {"setLdapAttribute", "addLdapAttribute", "removeLdapAttribute"}

\* C1: an addLdapEntry on a DN that holds an entry issues no wire add call
\* and fails with AlreadyExistsError raised by the pre-check.
C1_StrictCreate ==
    \A c \in Callers :
        (Running(c, "addLdapEntry") /\ pre[c][call[c].dn].exists) =>
            /\ ~Issued(c, "add")
            /\ Settled(c) => (Rejected(c) /\ outcome[c].error = "AlreadyExistsError")

\* C2: a removeLdapEntry on a DN that holds no entry resolves without error,
\* issues no wire delete call and leaves the directory unchanged.
C2_IdempotentDelete ==
    \A c \in Callers :
        (Running(c, "removeLdapEntry") /\ ~pre[c][call[c].dn].exists) =>
            /\ ~Issued(c, "del")
            /\ Settled(c) => Resolved(c)
            /\ directory = pre[c]

\* C3: setLdapAttribute, addLdapAttribute and removeLdapAttribute on a DN
\* that holds no entry resolve without error and issue no wire modify call.
C3_AttributeNoOp ==
    \A c \in Callers :
        (call[c].fn \in AttributeFns /\ call[c].client = Client
           /\ ~pre[c][call[c].dn].exists) =>
            /\ ~Issued(c, "modify")
            /\ Settled(c) => Resolved(c)

\* The precondition of a move, on the directory the invocation found.
MoveAllowed(c) ==
    /\ pre[c][call[c].dn].exists
    /\ ~pre[c][NewDn(call[c].newRdn, call[c].newParent)].exists

\* C4: a move succeeds if and only if an entry exists at oldDn and none at
\* newDn; in every other case it fails with InvalidMoveError and issues no
\* wire rename call.
C4_MovePrecondition ==
    \A c \in Callers :
        Running(c, "modifyLdapDn") =>
            /\ Settled(c) => (Resolved(c) <=> MoveAllowed(c))
            /\ ~MoveAllowed(c) =>
                  /\ ~Issued(c, "modifyDN")
                  /\ Settled(c) => outcome[c].error = "InvalidMoveError"

C6_NoSuchObjectNormalized ==
    \A c \in Callers :
        (Running(c, "queryLdap") /\ Settled(c) /\ ~Exists(pre[c], call[c].dn)) =>
            /\ Resolved(c)
            /\ outcome[c].value = << >>

\* C7: after an addLdapEntry that resolved, and before any further mutating
\* call, existsAtDn of its DN is true, and a subtree query whose base covers
\* the DN and whose filter selects the created entry (it matches the entry
\* and no other entry in scope) resolves with exactly one entry, whose
\* attributes are the created attributes.
C7_CreateReadRoundTrip ==
    created.valid =>
        /\ existsAtDn(directory, created.dn)
        /\ \A c \in Callers :
              (/\ Running(c, "queryLdap") /\ Settled(c)
               /\ call[c].dn \in {Suffix, created.dn}
               /\ Matches(call[c].filter, created.entry)
               /\ \A d \in DNs \ {created.dn} :
                     ~(call[c].dn = Suffix /\ directory[d].exists
                         /\ Matches(call[c].filter, directory[d].attrs)))
              => /\ Resolved(c)
                 /\ outcome[c].value = <<AttributesOf(created.entry)>>

C7_Witness ==
    \E c \in Callers :
        /\ created.valid
        /\ Running(c, "queryLdap") /\ Resolved(c)
        /\ call[c].dn = Suffix
        /\ call[c].filter # AnyFilter
        /\ Matches(call[c].filter, created.entry)
        /\ \E d \in DNs \ {created.dn} : directory[d].exists
        /\ outcome[c].value = <<AttributesOf(created.entry)>>

\* The values of an attribute that a query shows for the entry at dn.
ShownValues(dir, dn, name) ==
    UNION {a.values : a \in {b \in AttributesOf(dir[dn].attrs) : b.type = name}}

C9_SearchCollects ==
    \A c \in Callers :
        /\ pc[c] = "stream" => outcome[c].state = "pending"
        /\ (Running(c, "queryLdap") /\ Resolved(c)) =>
              /\ pending[c] = {}
              /\ resp[c] = "none"
              /\ Len(outcome[c].value) = Len(delivered[c])
              /\ \A i \in DOMAIN delivered[c] :
                    outcome[c].value[i] = delivered[c][i].attributes
              /\ \A i, j \in DOMAIN delivered[c] :
                    delivered[c][i].dn = delivered[c][j].dn => i = j
              /\ {delivered[c][i] : i \in DOMAIN delivered[c]} =
                    SearchMatches(pre[c], call[c].dn, call[c].filter)

C9_Witness ==
    \E c \in Callers :
        /\ Running(c, "queryLdap") /\ Resolved(c)
        /\ Len(outcome[c].value) >= 2
        /\ outcome[c].value[1] # outcome[c].value[2]

\* C10: every wire mutation call is preceded, within the same invocation, by
\* an existence search on the DN the invocation was given.
C10_PreCheckFirst ==
    \A c \in Callers :
        \A i \in DOMAIN wireLog[c] :
            wireLog[c][i].kind \in Mutations =>
                \E j \in 1..(i - 1) :
                    /\ wireLog[c][j].kind = "search"
                    /\ wireLog[c][j].dn = call[c].dn

\* C12: every operation called with a null or undefined session handle
\* fails with the precondition error ('client is not defined') before any
\* wire call is issued.
C12_MissingSessionFailsFast ==
    \A c \in Callers :
        (call[c].fn # "none" /\ call[c].client = Null) =>
            /\ wireLog[c] = << >>
            /\ Settled(c) => (Rejected(c) /\ outcome[c].error = "client is not defined")

\* C13: whenever the server reports an error for a wire add, modify, delete
\* or rename, the operation rejects with that error and the directory is as
\* it was before the call.
C13_MutationFailureWholesale ==
    \A c \in Callers :
        (req[c].kind \in Mutations /\ resp[c] # "none") =>
            /\ directory = pre[c]
            /\ pc[c] \in {"replied", "settled"}
            /\ Settled(c) => (Rejected(c) /\ outcome[c].error = resp[c])

C13_Witness ==
    \E c \in Callers :
        /\ call[c].fn = "addLdapAttribute" /\ Rejected(c)
        /\ outcome[c].error = "AttributeOrValueExists"
        /\ \E d \in DNs : directory[d].exists

\* C17: when one caller issues its operations one after another, the server
\* never answers a wire mutation with an already-exists or a no-such-object
\* error.
C17_NoWireExistenceError ==
    \A c \in SeqCallers :
        req[c].kind \in Mutations => resp[c] \notin {"EntryAlreadyExists", "NoSuchObject"}

\* C18: a search never changes the directory; setLdapAttribute,
\* addLdapAttribute and removeLdapAttribute never change which DNs hold an
\* entry, and change nothing but the named attribute of the entry at the
\* given DN.
C18_Frame ==
    \A c \in Callers :
        /\ call[c].fn = "queryLdap" => directory = pre[c]
        /\ call[c].fn \in AttributeFns =>
              /\ \A d \in DNs : directory[d].exists = pre[c][d].exists
              /\ \A d \in DNs \ {call[c].dn} : directory[d] = pre[c][d]
              /\ \A a \in AttrNames \ {call[c].name} :
                    directory[call[c].dn].attrs[a] = pre[c][call[c].dn].attrs[a]

C18_Witness ==
    \E c \in Callers :
        /\ call[c].fn \in AttributeFns /\ Resolved(c)
        /\ directory # pre[c]
        /\ \E a \in AttrNames \ {call[c].name} : directory[call[c].dn].attrs[a] # {}
        /\ \E d \in DNs \ {call[c].dn} : directory[d].exists

\* The number of wire mutation calls in a log of wire calls.
MutationCalls(log) == Cardinality({i \in DOMAIN log : log[i].kind \in Mutations})

\* C19: an invocation issues at most one wire mutation call, also when the
\* call fails, and once its promise has settled the result stays as it is
\* until the caller takes it.
C19_NoRetry ==
    [][\A c \in Callers :
          /\ MutationCalls(wireLog'[c]) <= 1
          /\ MutationCalls(wireLog[c]) = 1 => wireLog'[c] \in {wireLog[c], << >>}
          /\ outcome[c].state # "pending" =>
                \/ outcome'[c] = outcome[c]
                \/ outcome'[c] = Unsettled /\ pc'[c] = "idle"]_vars

C19_Witness ==
    \E c \in Callers :
        /\ Rejected(c)
        /\ req[c].kind \in Mutations
        /\ resp[c] # "none"
        /\ MutationCalls(wireLog[c]) = 1

\* C15: of two concurrent addLdapEntry calls for the same absent DN at most
\* one succeeds, and when both have settled exactly one has succeeded, the
\* other has failed with the already-exists error, and the DN holds one
\* entry, the one the successful call was given.
C15_CreateRace ==
    \A c \in Callers : \A o \in Callers \ {c} :
        (Running(c, "addLdapEntry") /\ Running(o, "addLdapEntry")) =>
            /\ ~(Resolved(c) /\ Resolved(o))
            /\ (Settled(c) /\ Settled(o) /\ Rejected(o)) =>
                  /\ Resolved(c)
                  /\ outcome[o].error = "EntryAlreadyExists"
                  /\ directory[call[c].dn] = [exists |-> TRUE, attrs |-> call[c].entry]

\* Both calls were made while the DN held no entry, and the error of the one
\* that failed is the server's answer to its wire add call.
C15_Witness ==
    \E c \in Callers : \E o \in Callers \ {c} :
        /\ Running(c, "addLdapEntry") /\ Running(o, "addLdapEntry")
        /\ ~pre[c][call[c].dn].exists /\ ~pre[o][call[o].dn].exists
        /\ Resolved(c) /\ Rejected(o)
        /\ Issued(o, "add") /\ resp[o] = "EntryAlreadyExists"
        /\ outcome[o].error = resp[o]
        /\ call[c].entry # call[o].entry

\* C11: when the server rejects the bind, openLdap fails to its caller and
\* never yields the session.
C11_RejectedBindSurfaced ==
    session.bind \in {"rejected", "failed"} => session.open = "rejected"

\* C14: when the unbind fails, closeLdap fails to its caller.
C14_CloseReportsUnbindFailure ==
    session.unbind = "failed" => session.close = "rejected"

\* C16: openLdap does not return the session before the bind is
\* acknowledged, closeLdap does not resolve before the unbind completes, a
\* search or a mutation does not resolve before the end signal or the
\* acknowledgment; hence no search or mutation is sent before the bind has
\* completed.
C16_SuspendUntilExchangeCompletes ==
    /\ session.open = "resolved" => session.bind = "bound"
    /\ session.close = "resolved" => session.unbind = "done"
    /\ \A c \in Callers :
          /\ wireLog[c] # << >> => session.bind = "bound"
          /\ (Resolved(c) /\ call[c].fn # "none") =>
                (resp[c] = "none" /\ pending[c] = {})

====
